---- MODULE Spec2Model ----
(***************************************************************************)
(* Model of kuryr_kubernetes/clients.py: the process-wide client registry, *)
(* its accessors, the client factories, the openstacksdk patch layer and   *)
(* the Neutron error translator.                                           *)
(*                                                                         *)
(* Python strings that the code inspects or builds are modelled as         *)
(* sequences of one-character strings, so that parsing (ip_address) and    *)
(* formatting ("https://%s:%s") are computed, not assumed.                 *)
(***************************************************************************)
EXTENDS Integers, Sequences, FiniteSets, TLC

(* ---------------------------- bounds ---------------------------------- *)

\* number of client objects the factories may construct in one behaviour
MaxObjects == 4

(* ---------------------- registry keys (clients.py) --------------------- *)

_NEUTRON_CLIENT == "neutron-client"
_KUBERNETES_CLIENT == "kubernetes-client"
_OPENSTACKSDK == "openstacksdk"
_POD_RESOURCES_CLIENT == "pod-resources-client"

(* ------------------------- string helpers ------------------------------ *)

Digits == {"0", "1", "2", "3", "4", "5", "6", "7", "8", "9"}
HexDigits == Digits \cup {"a", "b", "c", "d", "e", "f", "A", "B", "C", "D", "E", "F"}

DigitVal(c) ==
    CASE c = "0" -> 0 [] c = "1" -> 1 [] c = "2" -> 2 [] c = "3" -> 3
      [] c = "4" -> 4 [] c = "5" -> 5 [] c = "6" -> 6 [] c = "7" -> 7
      [] c = "8" -> 8 [] c = "9" -> 9

RECURSIVE DecimalVal(_)
DecimalVal(s) ==
    IF s = <<>> THEN 0
    ELSE 10 * DecimalVal(SubSeq(s, 1, Len(s) - 1)) + DigitVal(s[Len(s)])

\* str.split(sep) for a one-character separator
RECURSIVE SplitFrom(_, _, _)
SplitFrom(s, sep, cur) ==
    IF s = <<>> THEN <<cur>>
    ELSE IF Head(s) = sep THEN <<cur>> \o SplitFrom(Tail(s), sep, <<>>)
    ELSE SplitFrom(Tail(s), sep, Append(cur, Head(s)))

Split(s, sep) == SplitFrom(s, sep, <<>>)

Contains(s, c) == \E i \in 1..Len(s) : s[i] = c

(* ------------------- ipaddress.ip_address (stdlib) --------------------- *)

\* one octet of a dotted quad: 1..3 ASCII digits, no leading zero, <= 255
ValidOctet(o) ==
    /\ Len(o) \in 1..3
    /\ \A i \in 1..Len(o) : o[i] \in Digits
    /\ (Len(o) > 1 => o[1] # "0")
    /\ DecimalVal(o) <= 255

IsIPv4(s) ==
    LET octets == Split(s, ".")
    IN  /\ ~Contains(s, "/")
        /\ Len(octets) = 4
        /\ \A i \in 1..4 : ValidOctet(octets[i])

\* one group of an IPv6 literal: 1..4 hex digits
ValidHextet(h) ==
    /\ Len(h) \in 1..4
    /\ \A i \in 1..Len(h) : h[i] \in HexDigits

\* _ip_int_from_string of IPv6Address: a dotted quad in the last group stands
\* for two groups
ExpandEmbeddedIPv4(raw) ==
    IF Contains(raw[Len(raw)], ".")
    THEN SubSeq(raw, 1, Len(raw) - 1) \o << <<"0">>, <<"0">> >>
    ELSE raw

\* (addresses with a zone id, "%", are outside the hosts considered here)
IsIPv6(s) ==
    LET raw == Split(s, ":")
        parts == ExpandEmbeddedIPv4(raw)
        n == Len(parts)
        skips == {i \in 2..(n - 1) : parts[i] = <<>>}
        skip == CHOOSE i \in skips : TRUE
        hi == IF parts[1] = <<>> THEN skip - 2 ELSE skip - 1
        lo == IF parts[n] = <<>> THEN n - skip - 1 ELSE n - skip
    IN  /\ ~Contains(s, "/")
        /\ ~Contains(s, "%")
        /\ Len(raw) >= 3
        /\ (Contains(raw[Len(raw)], ".") => IsIPv4(raw[Len(raw)]))
        /\ n <= 9
        /\ Cardinality(skips) <= 1
        /\ IF skips # {}
           THEN /\ (parts[1] = <<>> => skip = 2)
                /\ (parts[n] = <<>> => skip = n - 1)
                /\ 8 - (hi + lo) >= 1
                /\ \A i \in 1..n :
                      (i # skip /\ ~(i = 1 /\ parts[1] = <<>>)
                                /\ ~(i = n /\ parts[n] = <<>>))
                          => ValidHextet(parts[i])
           ELSE /\ n = 8
                /\ \A i \in 1..n : ValidHextet(parts[i])

\* ip_address(host).version, or 0 where ip_address raises ValueError
ip_address(host) ==
    IF IsIPv4(host) THEN 4
    ELSE IF IsIPv6(host) THEN 6
    ELSE 0

(* ------------------------------ inputs --------------------------------- *)

\* values of config.CONF.kubernetes.api_root: empty (falsy, like None) or a URL
ConfRootUnset == <<>>
ConfRootExample == <<"h","t","t","p","s",":","/","/","e","x","a","m","p","l","e",":","6","4","4","3">>
ConfRoots == {ConfRootUnset, ConfRootExample}

HostV6Loopback == <<":",":","1">>
HostV6 == <<"f","e","8","0",":",":","a",":","1">>
HostV4 == <<"1","0",".","0",".","0",".","1">>
HostName == <<"m","y","-","h","o","s","t">>
HostBadQuad == <<"2","5","6",".","0",".","0",".","1">>
HostBadColons == <<"1",":",":","2",":",":","3">>
Hosts == {HostV6Loopback, HostV6, HostV4, HostName, HostBadQuad, HostBadColons}

Port443 == <<"4","4","3">>
Port8443 == <<"8","4","4","3">>
Ports == {Port443, Port8443}

ENV_HOST == "KUBERNETES_SERVICE_HOST"
ENV_PORT == "KUBERNETES_SERVICE_PORT_HTTPS"

\* os.environ restricted to the two variables the module reads: a mapping
\* whose domain is the set of variables that are present
Environs ==
    {e \in UNION {[D -> Hosts \cup Ports] : D \in SUBSET {ENV_HOST, ENV_PORT}} :
        /\ (ENV_HOST \in DOMAIN e => e[ENV_HOST] \in Hosts)
        /\ (ENV_PORT \in DOMAIN e => e[ENV_PORT] \in Ports)}

\* config.CONF.sriov.kubelet_root_dir
KubeletRootDir == <<"/","v","a","r">>

\* trunks and sub-ports known to the backend
TrunkIds == {"t1", "t2"}
SubportLists == {<<>>, <<"p1">>, <<"p1", "p2">>}

\* HTTP status codes the backend answers a PUT with
StatusCodes == {200, 404, 409, 500}

\* items of the 'ports' list of a bulk-create response
PortItems == {[id |-> "a"], [id |-> "b"]}
PortLists ==
    {<<>>} \cup {<<x>> : x \in PortItems}
           \cup {<<x, y>> : x \in PortItems, y \in PortItems}
Responses ==
    {[ok |-> TRUE, text |-> <<"{...}">>, ports |-> ps] : ps \in PortLists}
        \cup {[ok |-> FALSE, text |-> <<"quota exceeded">>, ports |-> <<>>]}

\* results of a router method: with or without an embedded error envelope
ErrorTypes == {"RouterNotFound", "RouterInterfaceNotFoundForSubnet",
               "SubnetNotFound", "Other"}
Envelopes == {[type |-> <<t>>, message |-> <<"m">>] : t \in ErrorTypes}
Results ==
    {[D \in {"id"} |-> <<"r1">>]}
        \cup {[D \in {"NeutronError"} |-> e] : e \in Envelopes}
        \cup {[D \in {"NeutronError", "id"} |->
                  IF D = "id" THEN <<"r1">> ELSE e] : e \in Envelopes}

(* ------------------------------ state ---------------------------------- *)

VARIABLES
    _clients,   \* the registry: a dict from key to object, DOMAIN = keys present
    heap,       \* the client objects reachable from the registry or from
                \* conn, by identity
    nextId,     \* identity of the next object a factory constructs
    pc,         \* position of the thread inside setup_clients (line)
    sdk,        \* position inside the body of setup_openstacksdk (0 = not in it)
    conn,       \* local variable conn of setup_openstacksdk (0 = unbound)
    calls,      \* factories entered by the current / last setup_clients
    snapshot,   \* the registry as it was when that setup_clients was entered
    stored,     \* per key, identity of the object of the latest store (0 = none)
    k8s_args,   \* configuration and environment read by the latest
                \* setup_kubernetes_client, and how it ended
    trunks,     \* sub_ports attribute cached in each Trunk resource object
    args,       \* arguments of the latest patch-layer call
    requests,   \* calls made to collaborators by the latest patch-layer
                \* operation or error translation
    ret         \* outcome of the operation that completed last

vars == <<_clients, heap, nextId, pc, sdk, conn, calls, snapshot, stored, k8s_args,
          trunks, args, requests, ret>>

Keys == {_NEUTRON_CLIENT, _KUBERNETES_CLIENT, _OPENSTACKSDK, _POD_RESOURCES_CLIENT}

PatchedOps == {"create_ports", "add_trunk_subports", "delete_trunk_subports"}

Object(type, arg) == [type |-> type, arg |-> arg, network |-> {}]

\* d[key] = value on a dict
DictSet(d, key, value) ==
    [k \in DOMAIN d \cup {key} |-> IF k = key THEN value ELSE d[k]]

Returned(op, value) ==
    [op |-> op, status |-> "return", exc |-> "", at |-> "", value |-> value]

Raised(op, exc, at, value) ==
    [op |-> op, status |-> "raise", exc |-> exc, at |-> at, value |-> value]

Init ==
    /\ _clients = <<>>
    /\ heap = <<>>
    /\ nextId = 1
    /\ pc = "idle"
    /\ sdk = 0
    /\ conn = 0
    /\ calls = <<>>
    /\ snapshot = <<>>
    /\ stored = [k \in Keys |-> 0]
    /\ k8s_args = [called |-> FALSE, conf |-> <<>>, environ |-> <<>>, exc |-> ""]
    /\ trunks = [t \in TrunkIds |-> <<>>]
    /\ args = <<>>
    /\ requests = <<>>
    /\ ret = Returned("import", <<>>)

(* ----------------------------- accessors ------------------------------- *)

\* _clients[key], KeyError when the key is absent
Lookup(op, key, attr) ==
    IF key \in DOMAIN _clients
    THEN Returned(op, <<_clients[key], attr>>)
    ELSE Raised(op, "KeyError", op, <<>>)

Accessor(result) ==
    /\ ret' = result
    /\ UNCHANGED <<_clients, heap, nextId, pc, sdk, conn, calls, snapshot, stored,
                    k8s_args, trunks, args, requests>>

get_network_client == Accessor(Lookup("get_network_client", _OPENSTACKSDK, "network"))

get_neutron_client == Accessor(Lookup("get_neutron_client", _NEUTRON_CLIENT, ""))

get_openstacksdk == Accessor(Lookup("get_openstacksdk", _OPENSTACKSDK, ""))

get_loadbalancer_client ==
    Accessor(LET r == Lookup("get_openstacksdk", _OPENSTACKSDK, "load_balancer")
             IN  [r EXCEPT !.op = "get_loadbalancer_client"])

get_kubernetes_client == Accessor(Lookup("get_kubernetes_client", _KUBERNETES_CLIENT, ""))

\* variant: the accessor reads the Kubernetes key
get_pod_resources_client_other_key ==
    Accessor(Lookup("get_pod_resources_client", _KUBERNETES_CLIENT, ""))

get_pod_resources_client ==
    Accessor(Lookup("get_pod_resources_client", _POD_RESOURCES_CLIENT, ""))

get_compute_client == Accessor(Lookup("get_compute_client", _OPENSTACKSDK, "compute"))

(* ----------------------------- factories ------------------------------- *)

\* a factory runs either on its own or at its line of setup_clients
AtCall(line) == (pc = "idle" \/ pc = line) /\ sdk = 0

\* the operation whose outcome the caller observes
TopLevel(f) == IF pc = "idle" THEN f ELSE "setup_clients"

\* variant: the Kubernetes factory is not called
AfterCall_skip_kubernetes ==
    CASE pc = "L69" -> "L71"
      [] OTHER -> "idle"

\* the line of setup_clients reached when the call at pc returns
AfterCall ==
    CASE pc = "L69" -> "L70"
      [] pc = "L70" -> "L71"
      [] OTHER -> "idle"

Enter(f) ==
    /\ calls' = IF pc = "idle" THEN calls ELSE Append(calls, f)
    /\ UNCHANGED snapshot

\* the factory f returns normally
FactoryReturns(f) ==
    /\ pc' = AfterCall
    /\ ret' = IF AfterCall = "idle" THEN Returned(TopLevel(f), <<>>) ELSE ret

\* variant: setup_clients catches the exception and goes on
FactoryRaises_and_continues(f, exc) ==
    /\ pc' = AfterCall
    /\ ret' = Raised(TopLevel(f), exc, f, <<>>)

\* the factory f raises: the exception leaves setup_clients as well
FactoryRaises(f, exc) ==
    /\ pc' = "idle"
    /\ ret' = Raised(TopLevel(f), exc, f, <<>>)

\* the objects of h that the registry c still refers to
Live(h, c) == [i \in {c[k] : k \in DOMAIN c} |-> h[i]]

\* _clients[key] = a newly constructed object
StoreNew(key, obj) ==
    /\ nextId <= MaxObjects
    /\ _clients' = DictSet(_clients, key, nextId)
    /\ heap' = Live(DictSet(heap, nextId, obj), _clients')
    /\ stored' = [stored EXCEPT ![key] = nextId]
    /\ nextId' = nextId + 1

setup_clients ==
    /\ pc = "idle"
    /\ sdk = 0
    /\ pc' = "L69"
    /\ calls' = <<>>
    /\ snapshot' = _clients
    /\ UNCHANGED <<_clients, heap, nextId, sdk, conn, stored, k8s_args, trunks,
                    args, requests, ret>>

\* variant: the client is stored under the openstacksdk key
setup_neutron_client_other_key ==
    /\ AtCall("L69")
    /\ Enter("setup_neutron_client")
    /\ \/ /\ StoreNew(_OPENSTACKSDK, Object("NeutronClient", <<>>))
          /\ FactoryReturns("setup_neutron_client")
       \/ /\ FactoryRaises("setup_neutron_client", "ClientException")
          /\ UNCHANGED <<_clients, heap, nextId, stored>>
    /\ UNCHANGED <<sdk, conn, k8s_args, trunks, args, requests>>

\* utils.get_neutron_client() either returns a client or raises
setup_neutron_client ==
    /\ AtCall("L69")
    /\ Enter("setup_neutron_client")
    /\ \/ /\ StoreNew(_NEUTRON_CLIENT, Object("NeutronClient", <<>>))
          /\ FactoryReturns("setup_neutron_client")
       \/ /\ FactoryRaises("setup_neutron_client", "ClientException")
          /\ UNCHANGED <<_clients, heap, nextId, stored>>
    /\ UNCHANGED <<sdk, conn, k8s_args, trunks, args, requests>>

\* "https://%s:%s" % (host, port)
FormatApiRoot(host, port) ==
    <<"h","t","t","p","s",":","/","/">> \o host \o <<":">> \o port

\* '[%s]' % host
Bracketed(host) == <<"[">> \o host \o <<"]">>

\* variant: the host is bracketed whenever it is an IP address
api_root_any_ip(conf, environ) ==
    IF conf # <<>>
    THEN [exc |-> "", value |-> conf]
    ELSE IF ENV_HOST \notin DOMAIN environ \/ ENV_PORT \notin DOMAIN environ
    THEN [exc |-> "KeyError", value |-> <<>>]
    ELSE LET host == environ[ENV_HOST]
             port == environ[ENV_PORT]
         IN  [exc |-> "",
              value |-> FormatApiRoot(IF ip_address(host) # 0
                                      THEN Bracketed(host) ELSE host, port)]

\* variant: an absent port variable falls back to "443"
api_root_default_port(conf, environ) ==
    IF conf # <<>>
    THEN [exc |-> "", value |-> conf]
    ELSE IF ENV_HOST \notin DOMAIN environ
    THEN [exc |-> "KeyError", value |-> <<>>]
    ELSE LET host == environ[ENV_HOST]
             port == IF ENV_PORT \in DOMAIN environ THEN environ[ENV_PORT]
                     ELSE <<"4","4","3">>
         IN  [exc |-> "",
              value |-> FormatApiRoot(IF ip_address(host) = 6
                                      THEN Bracketed(host) ELSE host, port)]

\* lines 79-93: the API root, or the KeyError of the os.environ lookup
api_root(conf, environ) ==
    IF conf # <<>>
    THEN [exc |-> "", value |-> conf]
    ELSE IF ENV_HOST \notin DOMAIN environ \/ ENV_PORT \notin DOMAIN environ
    THEN [exc |-> "KeyError", value |-> <<>>]
    ELSE LET host == environ[ENV_HOST]
             port == environ[ENV_PORT]
         IN  [exc |-> "",
              value |-> FormatApiRoot(IF ip_address(host) = 6
                                      THEN Bracketed(host) ELSE host, port)]

setup_kubernetes_client(conf, environ) ==
    LET root == api_root(conf, environ)
    IN  /\ AtCall("L70")
        /\ Enter("setup_kubernetes_client")
        /\ k8s_args' = [called |-> TRUE, conf |-> conf, environ |-> environ,
                        exc |-> root.exc]
        /\ IF root.exc = ""
           THEN /\ StoreNew(_KUBERNETES_CLIENT, Object("K8sClient", root.value))
                /\ FactoryReturns("setup_kubernetes_client")
           ELSE /\ FactoryRaises("setup_kubernetes_client", root.exc)
                /\ UNCHANGED <<_clients, heap, nextId, stored>>
        /\ UNCHANGED <<sdk, conn, trunks, args, requests>>

\* variant: the connection is stored before the last operation is attached
setup_openstacksdk_body_store_early ==
    << [line |-> 157, stmt |-> "setattr", name |-> "create_ports"],
       [line |-> 158, stmt |-> "setattr", name |-> "add_trunk_subports"],
       [line |-> 162, stmt |-> "store", name |-> _OPENSTACKSDK],
       [line |-> 160, stmt |-> "setattr", name |-> "delete_trunk_subports"] >>

\* lines 157-162: the statements after the connection is constructed
setup_openstacksdk_body ==
    << [line |-> 157, stmt |-> "setattr", name |-> "create_ports"],
       [line |-> 158, stmt |-> "setattr", name |-> "add_trunk_subports"],
       [line |-> 160, stmt |-> "setattr", name |-> "delete_trunk_subports"],
       [line |-> 162, stmt |-> "store", name |-> _OPENSTACKSDK] >>

\* lines 152-156: authentication, session and Connection, any of which
\* may raise
setup_openstacksdk ==
    /\ AtCall("L71")
    /\ Enter("setup_openstacksdk")
    /\ \/ /\ nextId <= MaxObjects
          /\ heap' = DictSet(heap, nextId, Object("Connection", <<>>))
          /\ conn' = nextId
          /\ nextId' = nextId + 1
          /\ sdk' = 1
          /\ UNCHANGED <<pc, ret>>
       \/ /\ FactoryRaises("setup_openstacksdk", "SDKException")
          /\ UNCHANGED <<heap, conn, nextId, sdk>>
    /\ UNCHANGED <<_clients, stored, k8s_args, trunks, args, requests>>

\* one statement of lines 157-162, executed on the object conn refers to
setup_openstacksdk_statement ==
    /\ sdk > 0
    /\ LET s == setup_openstacksdk_body[sdk]
       IN  IF s.stmt = "setattr"
           THEN /\ heap' = [heap EXCEPT ![conn].network = @ \cup {s.name}]
                /\ UNCHANGED <<_clients, stored>>
           ELSE /\ _clients' = DictSet(_clients, s.name, conn)
                /\ stored' = [stored EXCEPT ![s.name] = conn]
                /\ heap' = Live(heap, _clients')
    /\ IF sdk = Len(setup_openstacksdk_body)
       THEN /\ sdk' = 0
            /\ conn' = 0
            /\ FactoryReturns("setup_openstacksdk")
       ELSE /\ sdk' = sdk + 1
            /\ UNCHANGED <<conn, pc, ret>>
    /\ UNCHANGED <<nextId, calls, snapshot, k8s_args, trunks, args, requests>>

setup_pod_resources_client ==
    /\ pc = "idle"
    /\ sdk = 0
    /\ StoreNew(_POD_RESOURCES_CLIENT, Object("PodResourcesClient", KubeletRootDir))
    /\ ret' = Returned("setup_pod_resources_client", <<>>)
    /\ UNCHANGED <<pc, sdk, conn, calls, snapshot, k8s_args, trunks, args,
                   requests>>

(* --------------------------- SDK patch layer --------------------------- *)

\* the patched operation is reached through get_network_client().<name>
NetworkClientHas(name) ==
    /\ _OPENSTACKSDK \in DOMAIN _clients
    /\ name \in heap[_clients[_OPENSTACKSDK]].network

Request(method, url, json, response) ==
    [method |-> method, url |-> url, json |-> json, response |-> response]

\* openstack.exceptions: each class and its base class
ExceptionBase ==
    [NotFoundException |-> "HttpException", ConflictException |-> "HttpException",
     BadRequestException |-> "HttpException", HttpException |-> "SDKException",
     SDKException |-> "Exception", KeyError |-> "Exception",
     ClientException |-> "Exception", Exception |-> "Exception"]

RECURSIVE IsInstance(_, _)
IsInstance(exc, cls) ==
    \/ exc = cls
    \/ exc # "Exception" /\ IsInstance(ExceptionBase[exc], cls)

\* os_exc.raise_from_response: the class raised for a status code, "" for none
raise_from_response(status_code) ==
    IF status_code < 400 THEN ""
    ELSE IF status_code = 409 THEN "ConflictException"
    ELSE IF status_code = 404 THEN "NotFoundException"
    ELSE IF status_code = 400 THEN "BadRequestException"
    ELSE "HttpException"

\* os_utils.urljoin: the path segments, joined by "/"
urljoin(a, b, c) == <<a, b, c>>

\* os_port.Port(**item)
Port(item) == [resource |-> "Port", attrs |-> item]

\* variant: the first item of the response is skipped
PortsOf_skip_first(items) == [i \in 1..(Len(items) - 1) |-> Port(items[i + 1])]

\* (os_port.Port(**item) for item in response.json()['ports'])
PortsOf(items) == [i \in 1..Len(items) |-> Port(items[i])]

PatchLayerFrame ==
    UNCHANGED <<_clients, heap, nextId, pc, sdk, conn, calls, snapshot, stored,
                k8s_args>>

_create_ports(payload, response) ==
    /\ NetworkClientHas("create_ports")
    /\ args' = [payload |-> payload]
    /\ requests' = <<Request("POST", <<"ports">>, payload, response)>>
    /\ ret' = IF ~response.ok
              THEN Raised("create_ports", "SDKException", "_create_ports",
                          [message |-> <<"Error when bulk creating ports: %s">>,
                           extra_data |-> response.text])
              ELSE Returned("create_ports", PortsOf(response.ports))
    /\ UNCHANGED trunks
    /\ PatchLayerFrame

\* variant: the cached attribute is updated before the response is checked
_add_trunk_subports_update_first(trunk, by_id, subports, status_code) ==
    LET url == urljoin("trunks", trunk, "add_subports")
        exc == raise_from_response(status_code)
    IN  /\ NetworkClientHas("add_trunk_subports")
        /\ args' = [trunk |-> trunk, by_id |-> by_id, subports |-> subports]
        /\ requests' = <<Request("PUT", url, [sub_ports |-> subports], status_code)>>
        /\ trunks' = IF by_id THEN trunks ELSE [trunks EXCEPT ![trunk] = subports]
        /\ ret' = IF exc # ""
                  THEN Raised("add_trunk_subports", exc, "raise_from_response", <<>>)
                  ELSE Returned("add_trunk_subports",
                                [id |-> trunk, sub_ports |-> subports])
        /\ PatchLayerFrame

\* the trunk is given either as a Trunk resource (by_id = FALSE), which
\* _get_resource returns as it is, or as an id, for which it makes a new Trunk
_add_trunk_subports(trunk, by_id, subports, status_code) ==
    LET url == urljoin("trunks", trunk, "add_subports")
        exc == raise_from_response(status_code)
    IN  /\ NetworkClientHas("add_trunk_subports")
        /\ args' = [trunk |-> trunk, by_id |-> by_id, subports |-> subports]
        /\ requests' = <<Request("PUT", url, [sub_ports |-> subports], status_code)>>
        /\ IF exc # ""
           THEN /\ ret' = Raised("add_trunk_subports", exc, "raise_from_response", <<>>)
                /\ UNCHANGED trunks
           ELSE /\ trunks' = IF by_id THEN trunks
                             ELSE [trunks EXCEPT ![trunk] = subports]
                /\ ret' = Returned("add_trunk_subports",
                                   [id |-> trunk, sub_ports |-> subports])
        /\ PatchLayerFrame

_delete_trunk_subports(trunk, by_id, subports, status_code) ==
    LET url == urljoin("trunks", trunk, "remove_subports")
        exc == raise_from_response(status_code)
    IN  /\ NetworkClientHas("delete_trunk_subports")
        /\ args' = [trunk |-> trunk, by_id |-> by_id, subports |-> subports]
        /\ requests' = <<Request("PUT", url, [sub_ports |-> subports], status_code)>>
        /\ IF exc # ""
           THEN /\ ret' = Raised("delete_trunk_subports", exc, "raise_from_response", <<>>)
                /\ UNCHANGED trunks
           ELSE /\ trunks' = IF by_id THEN trunks
                             ELSE [trunks EXCEPT ![trunk] = subports]
                /\ ret' = Returned("delete_trunk_subports",
                                   [id |-> trunk, sub_ports |-> subports])
        /\ PatchLayerFrame

(* --------------------------- error translator -------------------------- *)

NotFoundTypes == {<<"RouterNotFound">>, <<"RouterInterfaceNotFoundForSubnet">>,
                  <<"SubnetNotFound">>}

\* variant: SubnetNotFound is missing from the tuple of not-found types
translate_without_subnet(result) ==
    IF "NeutronError" \in DOMAIN result
    THEN LET error == result["NeutronError"]
         IN  IF error.type \in NotFoundTypes \ {<<"SubnetNotFound">>}
             THEN Raised("handle_neutron_errors", "NotFoundException",
                         "handle_neutron_errors", error.message)
             ELSE Raised("handle_neutron_errors", "SDKException",
                         "handle_neutron_errors",
                         error.type \o <<": ">> \o error.message)
    ELSE Returned("handle_neutron_errors", result)

\* lines 139-148, applied to what method returned
translate(result) ==
    IF "NeutronError" \in DOMAIN result
    THEN LET error == result["NeutronError"]
         IN  IF error.type \in NotFoundTypes
             THEN Raised("handle_neutron_errors", "NotFoundException",
                         "handle_neutron_errors", error.message)
             ELSE Raised("handle_neutron_errors", "SDKException",
                         "handle_neutron_errors",
                         error.type \o <<": ">> \o error.message)
    ELSE Returned("handle_neutron_errors", result)

handle_neutron_errors(result) ==
    /\ args' = <<>>
    /\ requests' = <<Request("call", <<"method">>, <<>>, result)>>
    /\ ret' = translate(result)
    /\ UNCHANGED trunks
    /\ PatchLayerFrame

(* ---------------------------- specification ---------------------------- *)

Payloads == {[ports |-> <<[name |-> "x"]>>]}

\* environments of the registry specification: nothing set, or both set
EnvironsRegistry ==
    {e \in Environs : DOMAIN e = {} \/ e = [v \in {ENV_HOST, ENV_PORT} |->
                                   IF v = ENV_HOST THEN HostV6Loopback ELSE Port443]}

Accessors ==
    \/ get_network_client
    \/ get_neutron_client
    \/ get_openstacksdk
    \/ get_loadbalancer_client
    \/ get_kubernetes_client
    \/ get_pod_resources_client
    \/ get_compute_client

\* the registry: accessors and factories
Next ==
    \/ Accessors
    \/ setup_clients
    \/ setup_neutron_client
    \/ \E conf \in ConfRoots, environ \in EnvironsRegistry :
          setup_kubernetes_client(conf, environ)
    \/ setup_openstacksdk
    \/ setup_openstacksdk_statement
    \/ setup_pod_resources_client

Spec == Init /\ [][Next]_vars

\* the Kubernetes factory on every configuration and environment
NextKubernetes ==
    \/ \E conf \in ConfRoots, environ \in Environs :
          setup_kubernetes_client(conf, environ)
    \/ get_kubernetes_client

SpecKubernetes == Init /\ [][NextKubernetes]_vars

\* the patch layer and the error translator on a published connection
NextPatchLayer ==
    \/ setup_openstacksdk
    \/ setup_openstacksdk_statement
    \/ \E payload \in Payloads, response \in Responses :
          _create_ports(payload, response)
    \/ \E trunk \in TrunkIds, by_id \in BOOLEAN, subports \in SubportLists,
          status_code \in StatusCodes :
          _add_trunk_subports(trunk, by_id, subports, status_code)
    \/ \E trunk \in TrunkIds, by_id \in BOOLEAN, subports \in SubportLists,
          status_code \in StatusCodes :
          _delete_trunk_subports(trunk, by_id, subports, status_code)
    \/ \E result \in Results : handle_neutron_errors(result)

SpecPatchLayer == Init /\ [][NextPatchLayer]_vars

(* ------------------------------ properties ----------------------------- *)

\* the registry kind each accessor of a registry entry reads
AccessorKey ==
    [get_network_client |-> _OPENSTACKSDK, get_openstacksdk |-> _OPENSTACKSDK,
     get_kubernetes_client |-> _KUBERNETES_CLIENT,
     get_pod_resources_client |-> _POD_RESOURCES_CLIENT]

AccessorAttr ==
    [get_network_client |-> "network", get_openstacksdk |-> "",
     get_kubernetes_client |-> "", get_pod_resources_client |-> ""]

\* a step taken by an accessor: no factory moves and an outcome is recorded
AccessorStep(op) == ret'.op = op /\ pc' = pc /\ sdk' = sdk

\* C1: for the network backend (openstacksdk), kubernetes and pod-resources
\* kinds, a get called when no setup for the kind has completed raises the
\* lookup error (NotInitialized), and a get called afterwards returns exactly
\* the object stored by the most recent setup for the kind; a get changes
\* nothing, so repeated gets return the same object.
C1_GetReturnsLatestStored ==
    [][\A op \in DOMAIN AccessorKey :
          AccessorStep(op) =>
              /\ IF stored[AccessorKey[op]] = 0
                 THEN /\ ret'.status = "raise"
                      /\ ret'.exc = "KeyError"
                 ELSE /\ ret'.status = "return"
                      /\ ret'.value = <<stored[AccessorKey[op]], AccessorAttr[op]>>
              /\ _clients' = _clients
              /\ stored' = stored]_vars

\* C1 witness: the pod-resources client was set up twice and the accessor
\* returned the second object
C1_Witness ==
    /\ ret.op = "get_pod_resources_client"
    /\ ret.status = "return"
    /\ stored[_POD_RESOURCES_CLIENT] >= 2
    /\ ret.value[1] = stored[_POD_RESOURCES_CLIENT]
    /\ _KUBERNETES_CLIENT \in DOMAIN _clients

\* the hosts of Hosts that are IPv6 literals, listed by hand
IPv6Literals == {HostV6Loopback, HostV6}

\* the API root the contract asks for
ExpectedApiRoot(conf, environ) ==
    IF conf # ConfRootUnset THEN conf
    ELSE <<"h","t","t","p","s",":","/","/">>
            \o (IF environ[ENV_HOST] \in IPv6Literals
                THEN <<"[">> \o environ[ENV_HOST] \o <<"]">>
                ELSE environ[ENV_HOST])
            \o <<":">> \o environ[ENV_PORT]

RegisteredApiRoot == heap[_clients[_KUBERNETES_CLIENT]].arg

\* C2: after setup_kubernetes_client() has returned, the registered client's
\* API root is the configured api_root verbatim when one is configured
\* (whatever the environment holds), and otherwise "https://<host>:<port>"
\* from the two environment variables with the host in square brackets
\* exactly when it is an IPv6 literal.
C2_ApiRoot ==
    (k8s_args.called /\ k8s_args.exc = "") =>
        /\ _KUBERNETES_CLIENT \in DOMAIN _clients
        /\ RegisteredApiRoot = ExpectedApiRoot(k8s_args.conf, k8s_args.environ)
        /\ (k8s_args.conf # ConfRootUnset => RegisteredApiRoot = ConfRootExample)
        /\ (k8s_args.conf = ConfRootUnset
              /\ k8s_args.environ[ENV_HOST] = HostV6Loopback
              /\ k8s_args.environ[ENV_PORT] = Port443
               => RegisteredApiRoot =
                    <<"h","t","t","p","s",":","/","/","[",":",":","1","]",":","4","4","3">>)
        /\ (k8s_args.conf = ConfRootUnset
              /\ k8s_args.environ[ENV_HOST] = HostName
              /\ k8s_args.environ[ENV_PORT] = Port8443
               => RegisteredApiRoot =
                    <<"h","t","t","p","s",":","/","/","m","y","-","h","o","s","t",
                      ":","8","4","4","3">>)

\* C2 witness: no configured root, an IPv4 host: registered without brackets
C2_Witness ==
    /\ k8s_args.called
    /\ k8s_args.exc = ""
    /\ k8s_args.conf = ConfRootUnset
    /\ k8s_args.environ[ENV_HOST] = HostV4
    /\ RegisteredApiRoot =
         <<"h","t","t","p","s",":","/","/","1","0",".","0",".","0",".","1",":","4","4","3">>

\* C3: setup_kubernetes_client() with no configured api_root and at least one
\* of the two environment variables absent raises the lookup error
\* (MissingConfiguration) and leaves the registry as it was.
C3_MissingConfiguration ==
    [][\A conf \in ConfRoots, environ \in Environs :
          (/\ setup_kubernetes_client(conf, environ)
           /\ conf = ConfRootUnset
           /\ DOMAIN environ # {ENV_HOST, ENV_PORT})
            => /\ ret'.status = "raise"
               /\ ret'.exc = "KeyError"
               /\ _clients' = _clients
               /\ heap' = heap]_vars

\* C3 witness: the call failed for want of the port variable while an earlier
\* client stays registered
C3_Witness ==
    /\ k8s_args.called
    /\ k8s_args.conf = ConfRootUnset
    /\ DOMAIN k8s_args.environ = {ENV_HOST}
    /\ ret.op = "setup_kubernetes_client"
    /\ ret.status = "raise"
    /\ _KUBERNETES_CLIENT \in DOMAIN _clients

\* C4: whenever the connection is in the registry, its network sub-client
\* carries create_ports, add_trunk_subports and delete_trunk_subports.
C4_PublishedIsPatched ==
    _OPENSTACKSDK \in DOMAIN _clients =>
        PatchedOps \subseteq heap[_clients[_OPENSTACKSDK]].network

\* C4 witness: setup_openstacksdk runs again, half way through its patches,
\* while the earlier connection is the one accessors return
C4_Witness ==
    /\ _OPENSTACKSDK \in DOMAIN _clients
    /\ sdk = 3
    /\ conn # _clients[_OPENSTACKSDK]
    /\ heap[conn].network # PatchedOps
    /\ ret.op = "get_network_client"
    /\ ret.status = "return"

\* C5: handle_neutron_errors calls method once; a result without the
\* 'NeutronError' key is returned as it is; an embedded RouterNotFound,
\* RouterInterfaceNotFoundForSubnet or SubnetNotFound raises NotFound; any
\* other embedded type raises the generic SDK error with the text
\* "<type>: <message>"; no result with the key is ever returned.
C5_ErrorTranslation ==
    ret.op = "handle_neutron_errors" =>
        /\ Len(requests) = 1
        /\ requests[1].method = "call"
        /\ LET result == requests[1].response
           IN  IF "NeutronError" \notin DOMAIN result
               THEN ret.status = "return" /\ ret.value = result
               ELSE /\ ret.status = "raise"
                    /\ LET type == result["NeutronError"].type[1]
                           message == result["NeutronError"].message[1]
                       IN  IF type \in {"RouterNotFound",
                                        "RouterInterfaceNotFoundForSubnet",
                                        "SubnetNotFound"}
                           THEN ret.exc = "NotFoundException"
                           ELSE /\ ret.exc = "SDKException"
                                /\ ret.value = <<type, ": ", message>>

\* C5 witness: an envelope of another type, next to ordinary keys, was
\* translated into the generic error "Other: m"
C5_Witness ==
    /\ ret.op = "handle_neutron_errors"
    /\ DOMAIN requests[1].response = {"NeutronError", "id"}
    /\ ret.exc = "SDKException"
    /\ ret.value = <<"Other", ": ", "m">>

\* the last path segment each trunk sub-port mutation must use
TrunkAction ==
    [add_trunk_subports |-> "add_subports", delete_trunk_subports |-> "remove_subports"]

\* a step taken by a patch-layer operation: no factory moves
PatchStep(op) == ret'.op = op /\ pc' = pc /\ sdk' = sdk

\* C6: add_trunk_subports and delete_trunk_subports issue exactly one PUT, to
\* trunks/<id>/add_subports resp. trunks/<id>/remove_subports, with the body
\* {'sub_ports': subports}; a 404 raises NotFound, any other failure status
\* raises an SDK error, and in both cases the cached sub_ports stay as they
\* were; on success the trunk's cached sub_ports are the submitted list and
\* no request follows the PUT.
C6_TrunkSubports ==
    [][\A op \in DOMAIN TrunkAction :
          PatchStep(op) =>
              /\ Len(requests') = 1
              /\ requests'[1].method = "PUT"
              /\ requests'[1].url = <<"trunks", args'.trunk, TrunkAction[op]>>
              /\ requests'[1].json = [sub_ports |-> args'.subports]
              /\ LET status_code == requests'[1].response
                 IN  /\ status_code = 404 =>
                           /\ ret'.status = "raise"
                           /\ ret'.exc = "NotFoundException"
                           /\ trunks' = trunks
                     /\ (status_code >= 400 /\ status_code # 404) =>
                           /\ ret'.status = "raise"
                           /\ ret'.exc # "NotFoundException"
                           /\ IsInstance(ret'.exc, "SDKException")
                           /\ trunks' = trunks
                     /\ status_code < 400 =>
                           /\ ret'.status = "return"
                           /\ ret'.value.id = args'.trunk
                           /\ ret'.value.sub_ports = args'.subports
                           /\ (~args'.by_id => trunks'[args'.trunk] = args'.subports)
                           /\ \A t \in TrunkIds \ {args'.trunk} :
                                 trunks'[t] = trunks[t]]_vars

\* C6 witness: a removal was refused with 409 after an earlier mutation had
\* set the cached list of that trunk, which is still in place
C6_Witness ==
    /\ ret.op = "delete_trunk_subports"
    /\ ret.status = "raise"
    /\ ret.exc = "ConflictException"
    /\ requests[1].url = <<"trunks", "t1", "remove_subports">>
    /\ requests[1].json.sub_ports = <<"p1">>
    /\ trunks["t1"] = <<"p1", "p2">>

\* C7: create_ports issues one POST with the payload; a response that is not
\* ok raises the SDK error carrying the response text and yields no port; an
\* ok response yields one port object per item of 'ports', in order.
C7_BulkCreate ==
    ret.op = "create_ports" =>
        /\ Len(requests) = 1
        /\ requests[1].method = "POST"
        /\ requests[1].json = args.payload
        /\ LET response == requests[1].response
           IN  IF response.ok
               THEN /\ ret.status = "return"
                    /\ Len(ret.value) = Len(response.ports)
                    /\ \A i \in 1..Len(response.ports) :
                          /\ ret.value[i].resource = "Port"
                          /\ ret.value[i].attrs = response.ports[i]
               ELSE /\ ret.status = "raise"
                    /\ ret.exc = "SDKException"
                    /\ ret.value.extra_data = response.text

\* C7 witness: two different items came back as two ports in the same order
C7_Witness ==
    /\ ret.op = "create_ports"
    /\ ret.status = "return"
    /\ Len(ret.value) = 2
    /\ ret.value[1].attrs.id = "a"
    /\ ret.value[2].attrs.id = "b"

\* the registry key each factory writes
FactoryKey ==
    [setup_neutron_client |-> _NEUTRON_CLIENT,
     setup_kubernetes_client |-> _KUBERNETES_CLIENT,
     setup_openstacksdk |-> _OPENSTACKSDK]

\* the order in which setup_clients calls the factories
FactoryOrder ==
    <<"setup_neutron_client", "setup_kubernetes_client", "setup_openstacksdk">>

IsPrefix(p, q) == Len(p) <= Len(q) /\ p = SubSeq(q, 1, Len(p))

Succeeds(result) == result.status = "return"
Fails(result) == result.status = "raise" /\ result.exc = "KeyError"

\* what holds once setup_clients has returned: every accessor but the
\* pod-resources one succeeds
AfterSetupClients ==
    /\ Succeeds(Lookup("get_network_client", _OPENSTACKSDK, "network"))
    /\ Succeeds(Lookup("get_openstacksdk", _OPENSTACKSDK, ""))
    /\ Succeeds(Lookup("get_loadbalancer_client", _OPENSTACKSDK, "load_balancer"))
    /\ Succeeds(Lookup("get_compute_client", _OPENSTACKSDK, "compute"))
    /\ Succeeds(Lookup("get_kubernetes_client", _KUBERNETES_CLIENT, ""))
    /\ (_POD_RESOURCES_CLIENT \notin DOMAIN snapshot =>
           Fails(Lookup("get_pod_resources_client", _POD_RESOURCES_CLIENT, "")))

\* C8 as stated: setup_clients calls the factory of the network-backend
\* connection (the one get_network_client reads) before the Kubernetes
\* factory, never the pod-resources one, and after it has returned every
\* accessor but get_pod_resources_client succeeds.
C8_NetworkBackendFirst ==
    /\ \A i \in 1..Len(calls) :
          calls[i] = "setup_kubernetes_client" =>
              \E j \in 1..(i - 1) : calls[j] = "setup_openstacksdk"
    /\ (pc = "idle" /\ ret.op = "setup_clients" /\ ret.status = "return") =>
          AfterSetupClients

\* C8 amended: setup_clients calls three factories, always in the order
\* legacy neutron client, Kubernetes, openstacksdk connection (so the
\* connection that get_network_client reads is set up last), never the
\* pod-resources one; after it has returned every accessor but
\* get_pod_resources_client succeeds, and that one fails until
\* setup_pod_resources_client is called.
C8_FixedOrder ==
    [][/\ IsPrefix(calls', FactoryOrder)
       /\ (pc # "idle" =>
             /\ stored'[_POD_RESOURCES_CLIENT] = stored[_POD_RESOURCES_CLIENT]
             /\ (_POD_RESOURCES_CLIENT \in DOMAIN _clients'
                    <=> _POD_RESOURCES_CLIENT \in DOMAIN _clients))
       /\ (pc # "idle" /\ pc' = "idle" /\ ret'.status = "return") =>
             /\ ret'.op = "setup_clients"
             /\ calls' = FactoryOrder
             /\ AfterSetupClients'
       /\ (_POD_RESOURCES_CLIENT \notin DOMAIN _clients
             /\ _POD_RESOURCES_CLIENT \in DOMAIN _clients') =>
             ret'.op = "setup_pod_resources_client"]_vars

\* C8 witness: setup_clients has returned from an empty registry and the
\* pod-resources accessor has failed afterwards
C8_Witness ==
    /\ pc = "idle"
    /\ snapshot = <<>>
    /\ calls = FactoryOrder
    /\ DOMAIN _clients = {_NEUTRON_CLIENT, _KUBERNETES_CLIENT, _OPENSTACKSDK}
    /\ ret.op = "get_pod_resources_client"
    /\ ret.status = "raise"

Entry(c, key) == IF key \in DOMAIN c THEN c[key] ELSE 0

\* the registry key each setup function writes
SetupKey ==
    [setup_neutron_client |-> _NEUTRON_CLIENT,
     setup_kubernetes_client |-> _KUBERNETES_CLIENT,
     setup_openstacksdk |-> _OPENSTACKSDK,
     setup_pod_resources_client |-> _POD_RESOURCES_CLIENT]

AccessorNames ==
    {"get_network_client", "get_neutron_client", "get_openstacksdk",
     "get_loadbalancer_client", "get_kubernetes_client",
     "get_pod_resources_client", "get_compute_client"}

\* the setup function a step belongs to: the factory setup_clients has
\* entered last, or the function called on its own that this step completes
SetupOfStep == IF pc # "idle" THEN calls'[Len(calls')] ELSE ret'.op

\* C9: the entry of a kind is changed only by the setup function of that
\* kind: accessors and the setups of other kinds leave it alone, no entry is
\* ever removed, and a repeated setup replaces the entry by a new object.
C9_Frame ==
    [][/\ DOMAIN _clients \subseteq DOMAIN _clients'
       /\ \A op \in AccessorNames : AccessorStep(op) => _clients' = _clients
       /\ \A key \in Keys :
             Entry(_clients', key) # Entry(_clients, key) =>
                 /\ SetupOfStep \in DOMAIN SetupKey
                 /\ SetupKey[SetupOfStep] = key
                 /\ _clients'[key] \notin {_clients[k] : k \in DOMAIN _clients}]_vars

\* C9 witness: the Kubernetes client was set up twice, the neutron client
\* once before that, and the neutron entry is still the first object
C9_Witness ==
    /\ DOMAIN _clients = {_NEUTRON_CLIENT, _KUBERNETES_CLIENT}
    /\ _clients[_NEUTRON_CLIENT] = 1
    /\ _clients[_KUBERNETES_CLIENT] = 3
    /\ ret.op = "get_neutron_client"

\* the registry after a setup_clients that raised in its n-th factory
FailedSetupClients ==
    LET n == Len(calls)
    IN  /\ n \in 1..Len(FactoryOrder)
        /\ calls = SubSeq(FactoryOrder, 1, n)
        /\ ret.at = calls[n]
        /\ \A i \in 1..Len(FactoryOrder) :
              LET key == FactoryKey[FactoryOrder[i]]
              IN  IF i < n
                  THEN /\ key \in DOMAIN _clients
                       /\ _clients[key] # Entry(snapshot, key)
                  ELSE Entry(_clients, key) = Entry(snapshot, key)
        /\ Entry(_clients, _POD_RESOURCES_CLIENT)
             = Entry(snapshot, _POD_RESOURCES_CLIENT)

\* C10: when a factory called by setup_clients raises, setup_clients ends at
\* once with that exception; the entries written by the factories before it
\* stay, and the kinds of the failing and the later factories are as they
\* were before the call (absent, or the previous object).
C10_NoRollback ==
    [][/\ (ret' # ret /\ ret'.op = "setup_clients" /\ ret'.status = "raise") =>
             /\ pc' = "idle"
             /\ sdk' = 0
             /\ _clients' = _clients
             /\ calls' = Append(calls, ret'.at)
       /\ (pc' = "idle" /\ ret'.op = "setup_clients" /\ ret'.status = "raise") =>
             FailedSetupClients']_vars

\* C10 witness: a second setup_clients failed in the Kubernetes factory: the
\* neutron entry is the new object, the Kubernetes and connection entries
\* are the objects of the first run
C10_Witness ==
    /\ pc = "idle"
    /\ ret.op = "setup_clients"
    /\ ret.status = "raise"
    /\ ret.at = "setup_kubernetes_client"
    /\ DOMAIN snapshot = {_NEUTRON_CLIENT, _KUBERNETES_CLIENT, _OPENSTACKSDK}
    /\ _clients[_NEUTRON_CLIENT] # snapshot[_NEUTRON_CLIENT]
    /\ _clients[_KUBERNETES_CLIENT] = snapshot[_KUBERNETES_CLIENT]
    /\ _clients[_OPENSTACKSDK] = snapshot[_OPENSTACKSDK]

====
